---- MODULE Spec2Model ----
(***************************************************************************)
(* A model of libvfio-user-rs: the configurator and the setup sequence of  *)
(* a device (setup.rs, lib.rs), the dispatch callbacks that maintain the   *)
(* DMA table (callbacks.rs) and the DMA range / mapping engine (dma.rs).   *)
(* The native libvfio-user session is the environment: every native call   *)
(* returns a value chosen by the environment within the native contract.   *)
(***************************************************************************)
EXTENDS Integers, Sequences, FiniteSets, TLC

VARIABLES
    \* DeviceConfigurator / DeviceConfiguration
    device_regions,     \* the Vec<DeviceRegion>, by region kind
    region_attrs,       \* the other fields of each DeviceRegion, in the same order
    regions_some,       \* whether the builder's Option<Vec<..>> is Some
    setup_dma,          \* configuration field setup_dma
    overwrite_socket,   \* configuration field overwrite_socket
    non_blocking,       \* configuration field non_blocking
    build_result,       \* what build() returned
    \* setup_all and the device's life
    pc,                 \* position in configure / setup_all / the device's life
    vfu_ctx,            \* DeviceContext.vfu_ctx: "None" or "Some"
    calls,              \* the native and file-system calls made so far, in order
    setup_result,       \* what setup_all returned: "" (not yet), "Ok" or the error
    failed_call,        \* the call the environment made fail ("" when none)
    \* the native session, as the environment sees it
    session,            \* "none", "live" or "destroyed"
    socket_file,        \* what is at the socket path: "absent", "socket" or "other"
    region_setups,      \* the arguments of the vfu_setup_region calls made, in order
    host_vaddr,         \* the registered DMA bases that have a host address
    \* DeviceContext.dma_regions and the history of DMA events
    dma_regions,        \* base -> length
    hist,               \* per base: the register/unregister events seen
    \* the DMA range / mapping engine
    range,              \* the DmaRange / DmaMapping object of the last dma_range
    result,             \* what the last dma_range / into_mapping returned
    trace,              \* the native calls made on behalf of that object
    stale_use,          \* a native DMA call was made on a destroyed session
    \* read and write through a DmaRange
    guest_mem,          \* the guest bytes behind the range, entry after entry
    written,            \* the data of the last write that succeeded on the range
    io,                 \* what the last read / write did and returned
    \* attach and run
    pending,            \* requests the client has sent and the session not processed
    errno,              \* the platform's last error
    session_out,        \* what the last attach / run did and returned
    \* the dispatch callbacks
    dispatch            \* the last callback the native session ran, and its outcome

vars == << device_regions, region_attrs, socket_file, region_setups, regions_some, setup_dma, overwrite_socket, non_blocking,
           build_result, pc, vfu_ctx, calls, setup_result, failed_call, session,
           host_vaddr, dma_regions, hist, range, result, trace, stale_use,
           guest_mem, written, io, pending, errno, session_out, dispatch >>

config_vars == << device_regions, region_attrs, regions_some, setup_dma, overwrite_socket, non_blocking,
                 build_result >>
setup_vars  == << pc, vfu_ctx, calls, setup_result, failed_call, session, socket_file,
                 region_setups >>
dma_vars    == << host_vaddr, dma_regions, hist, range, result, trace, stale_use >>
io_vars     == << guest_mem, written, io >>
run_vars    == << pending, errno, session_out >>
work_vars   == << io_vars, run_vars, dispatch >>

-----------------------------------------------------------------------------
(* Bounds *)

MaxRegions == 2     \* device regions added to a configurator
MaxBase    == 2     \* DMA base addresses 0 .. MaxBase-1
MaxRegLen  == 2     \* lengths of registered DMA regions, 1 .. MaxRegLen
MaxLen     == 2     \* len passed to dma_range, 0 .. MaxLen
MaxSg      == 2     \* max_regions passed to dma_range, 0 .. MaxSg
MaxPending == 2     \* requests of the client waiting in the session
MaxOffset  == 1     \* offset of a region access, 0 .. MaxOffset
MaxCount   == 2     \* count of a region access, 0 .. MaxCount
UsizeBits  == 4     \* the width of usize / isize, scaled down

Bases   == 0 .. (MaxBase - 1)
RegLens == 1 .. MaxRegLen

-----------------------------------------------------------------------------
(* Region kinds and their protocol index *)

DeviceRegionKind ==
    { [kind |-> k] : k \in {"Bar0", "Bar1", "Bar2", "Bar3", "Bar4", "Bar5",
                             "Rom", "Vga", "Migration"} }
    \cup { [kind |-> "Config", always_callback |-> b] : b \in BOOLEAN }

\* A plausible slip: the two Config variants told apart.
to_vfu_region_type_split(k) ==
    CASE k.kind = "Bar0" -> 0
      [] k.kind = "Bar1" -> 1
      [] k.kind = "Bar2" -> 2
      [] k.kind = "Bar3" -> 3
      [] k.kind = "Bar4" -> 4
      [] k.kind = "Bar5" -> 5
      [] k.kind = "Rom" -> 6
      [] k.kind = "Config" -> IF k.always_callback THEN 7 ELSE 10
      [] k.kind = "Vga" -> 8
      [] k.kind = "Migration" -> 9

to_vfu_region_type(k) ==
    CASE k.kind = "Bar0" -> 0
      [] k.kind = "Bar1" -> 1
      [] k.kind = "Bar2" -> 2
      [] k.kind = "Bar3" -> 3
      [] k.kind = "Bar4" -> 4
      [] k.kind = "Bar5" -> 5
      [] k.kind = "Rom" -> 6
      [] k.kind = "Config" -> 7
      [] k.kind = "Vga" -> 8
      [] k.kind = "Migration" -> 9

\* The loop of validate: the set of indices seen so far, region by region.
RECURSIVE validate_from(_, _, _)
validate_from(regions, i, region_vfu_types) ==
    IF i > Len(regions) THEN [ok |-> TRUE, idx |-> -1]
    ELSE LET vfu_region_type == to_vfu_region_type(regions[i]) IN
         IF vfu_region_type \in region_vfu_types
         THEN [ok |-> FALSE, idx |-> vfu_region_type]
         ELSE validate_from(regions, i + 1, region_vfu_types \cup {vfu_region_type})

\* A plausible slip: a builder without the validate hook.
validate_skipped(some, regions) == [ok |-> TRUE, idx |-> -1]

validate(some, regions) ==
    IF some THEN validate_from(regions, 1, {}) ELSE [ok |-> TRUE, idx |-> -1]

-----------------------------------------------------------------------------
(* The configurator *)

NoRegion == [kind |-> "none"]

\* A region given to add_device_region is its kind k and its other fields a.
add_device_region(k, a) ==
    /\ pc = "configure"
    /\ Len(device_regions) < MaxRegions
    /\ device_regions' = Append(device_regions, k)
    /\ region_attrs' = Append(region_attrs, a)
    /\ regions_some' = TRUE
    /\ UNCHANGED << setup_dma, overwrite_socket, non_blocking, build_result >>
    /\ UNCHANGED << setup_vars, dma_vars, work_vars >>

\* build(): the validate hook first, then the generated check that every field
\* without a default was set (device_regions has none).
build ==
    /\ pc = "configure"
    /\ LET v == validate(regions_some, device_regions) IN
       IF ~v.ok
       THEN /\ build_result' = [ok |-> FALSE, err |-> "Duplicate device region", idx |-> v.idx]
            /\ pc' = "rejected"
       ELSE IF ~regions_some
       THEN /\ build_result' = [ok |-> FALSE, err |-> "UninitializedField", idx |-> -1]
            /\ pc' = "rejected"
       ELSE /\ build_result' = [ok |-> TRUE, err |-> "", idx |-> -1]
            /\ pc' = "setup_create_device"
    /\ UNCHANGED << device_regions, region_attrs, regions_some, setup_dma, overwrite_socket,
                    non_blocking >>
    /\ UNCHANGED << vfu_ctx, calls, setup_result, failed_call, session, socket_file,
                    region_setups >>
    /\ UNCHANGED << dma_vars, work_vars >>

-----------------------------------------------------------------------------
(* setup_all *)

Call(fn) == [fn |-> fn, idx |-> -1]
RegionCall(k) == [fn |-> "vfu_setup_region", idx |-> to_vfu_region_type(k)]

NoResult == [ok |-> FALSE, msg |-> "", region |-> NoRegion]
OkResult == [ok |-> TRUE, msg |-> "", region |-> NoRegion]
Err(msg) == [ok |-> FALSE, msg |-> msg, region |-> NoRegion]

\* A plausible slip: the handle destroyed whether or not it was ever created.
DeviceContextDropAlways(handle) == << Call("vfu_destroy_ctx") >>

\* impl Drop for DeviceContext: the native calls it makes.
DeviceContextDrop(handle) ==
    IF handle = "Some" THEN << Call("vfu_destroy_ctx") >> ELSE << >>

\* A plausible slip: PCI initialised before the log dispatch is installed.
setup_all_next_swapped(step) ==
    CASE step = "setup_create_device"   -> "setup_pci"
      [] step = "setup_pci"             -> "setup_log"
      [] step = "setup_log"             -> "setup_device_regions"
      [] step = "setup_device_regions"  -> "setup_other_callbacks"
      [] step = "setup_other_callbacks" -> "setup_realize"
      [] step = "setup_realize"         -> "realized"

\* The order of the steps of setup_all.
setup_all_next(step) ==
    CASE step = "setup_create_device"   -> "setup_log"
      [] step = "setup_log"             -> "setup_pci"
      [] step = "setup_pci"             -> "setup_device_regions"
      [] step = "setup_device_regions"  -> "setup_other_callbacks"
      [] step = "setup_other_callbacks" -> "setup_realize"
      [] step = "setup_realize"         -> "realized"

\* A plausible slip: a failed step that is logged and ignored.
step_outcome_ignored(step, ok) == setup_all_next(step)

\* The ? after each step: the next step on Ok, out of setup_all on Err.
step_outcome(step, ok) == IF ok THEN setup_all_next(step) ELSE "failed"

\* A step of setup_all that made the calls cs and ended Ok, or with error e after
\* the call fc failed; on an error the device (holding handle) is dropped on the
\* way out of setup_all.
Step(cs, handle, ok, e, fc) ==
    /\ pc' = step_outcome(pc, ok)
    /\ IF pc' = "failed"
       THEN /\ calls' = calls \o cs \o DeviceContextDrop(handle)
            /\ session' = IF Len(DeviceContextDrop(handle)) > 0 THEN "destroyed" ELSE session
       ELSE /\ calls' = calls \o cs
            /\ session' = IF handle = "Some" THEN "live" ELSE session
    /\ vfu_ctx' = handle
    /\ socket_file' = IF \E i \in DOMAIN cs : cs[i].fn = "remove_file"
                      THEN "absent" ELSE socket_file
    /\ failed_call' = IF ok THEN failed_call ELSE fc
    /\ setup_result' = IF ok THEN (IF pc' = "realized" THEN OkResult ELSE setup_result)
                       ELSE e

\* A plausible slip: whatever is at the path is removed, socket or not.
socket_to_remove_any(overwrite, file) == overwrite /\ file # "absent"

\* The file at the socket path is removed when overwrite_socket is set, its
\* metadata can be read and it is a socket.
socket_to_remove(overwrite, file) == overwrite /\ file = "socket"

setup_create_device ==
    /\ pc = "setup_create_device"
    /\ \E rm_ok \in BOOLEAN, path \in {"ok", "not_unicode", "nul"}, created \in BOOLEAN :
         LET remove == socket_to_remove(overwrite_socket, socket_file)
             rm == IF remove THEN << Call("remove_file") >> ELSE << >>
         IN  IF remove /\ ~rm_ok
             THEN \* fs::remove_file(..)? : out before the device is constructed
                  /\ calls' = calls \o rm
                  /\ pc' = "failed"
                  /\ setup_result' = Err("io error")
                  /\ failed_call' = "remove_file"
                  /\ UNCHANGED << vfu_ctx, session, socket_file >>
             ELSE IF path = "not_unicode"
             THEN Step(rm, "None", FALSE, Err("Path is not valid unicode"), "to_str")
             ELSE IF path = "nul"
             THEN Step(rm, "None", FALSE, Err("nul byte found in provided data"), "CString::new")
             ELSE IF ~created
             THEN Step(rm \o << Call("vfu_create_ctx") >>, "None", FALSE,
                       Err("Failed to create VFIO context"), "vfu_create_ctx")
             ELSE Step(rm \o << Call("vfu_create_ctx") >>, "Some", TRUE, NoResult, "")
    /\ UNCHANGED << config_vars, dma_vars, work_vars, region_setups >>

setup_log ==
    /\ pc = "setup_log"
    /\ \E ok \in BOOLEAN :
         Step(<< Call("vfu_setup_log") >>, vfu_ctx, ok,
              Err("Failed to setup logging"), "vfu_setup_log")
    /\ UNCHANGED << config_vars, dma_vars, work_vars, region_setups >>

\* The native contract gives a config space once vfu_pci_init succeeded.
setup_pci ==
    /\ pc = "setup_pci"
    /\ \E ok \in BOOLEAN :
         IF ok
         THEN Step(<< Call("vfu_pci_init"), Call("vfu_pci_set_id"), Call("vfu_pci_set_class"),
                      Call("vfu_pci_get_config_space") >>, vfu_ctx, TRUE, NoResult, "")
         ELSE Step(<< Call("vfu_pci_init") >>, vfu_ctx, FALSE,
                   Err("Failed to setup PCI"), "vfu_pci_init")
    /\ UNCHANGED << config_vars, dma_vars, work_vars, region_setups >>

\* The fields of a DeviceRegion besides its kind, as a plain region has them.
PlainRegion == [size |-> 1, file_descriptor |-> -1, offset |-> 0,
                read |-> TRUE, write |-> TRUE, memory |-> FALSE]

\* A plausible slip: ALWAYS_CB given to every Config region.
region_flags_config_always(k, a) ==
    (IF a.read THEN {"VFU_REGION_FLAG_READ"} ELSE {})
    \cup (IF a.write THEN {"VFU_REGION_FLAG_WRITE"} ELSE {})
    \cup (IF a.memory THEN {"VFU_REGION_FLAG_MEM"} ELSE {})
    \cup (IF k.kind = "Config" THEN {"VFU_REGION_FLAG_ALWAYS_CB"} ELSE {})

\* The flags of a region: the bits or-ed together, as the set of their names.
region_flags(k, a) ==
    (IF a.read THEN {"VFU_REGION_FLAG_READ"} ELSE {})
    \cup (IF a.write THEN {"VFU_REGION_FLAG_WRITE"} ELSE {})
    \cup (IF a.memory THEN {"VFU_REGION_FLAG_MEM"} ELSE {})
    \cup (IF k.kind = "Config" /\ k.always_callback
          THEN {"VFU_REGION_FLAG_ALWAYS_CB"} ELSE {})

\* The arguments of vfu_setup_region for a region.
setup_region_args(k, a) ==
    [region_idx |-> to_vfu_region_type(k), size |-> a.size, flags |-> region_flags(k, a),
     fd |-> a.file_descriptor, offset |-> a.offset]

\* fail_at = 0: every vfu_setup_region returned 0; else the fail_at-th did not.
setup_device_regions ==
    /\ pc = "setup_device_regions"
    /\ \E fail_at \in 0 .. Len(device_regions) :
         LET n == IF fail_at = 0 THEN Len(device_regions) ELSE fail_at
             cs == [i \in 1 .. n |-> RegionCall(device_regions[i])]
         IN  /\ region_setups' = region_setups \o
                    [i \in 1 .. n |-> setup_region_args(device_regions[i], region_attrs[i])]
             /\ IF fail_at = 0
                THEN Step(cs, vfu_ctx, TRUE, NoResult, "")
                ELSE Step(cs, vfu_ctx, FALSE,
                          [ok |-> FALSE, msg |-> "Failed to setup region",
                           region |-> device_regions[fail_at]],
                          "vfu_setup_region")
    /\ UNCHANGED << config_vars, dma_vars, work_vars >>

\* A plausible slip: the DMA callbacks are installed whatever the flag says
\* and whatever the reset installation returned.
other_callbacks_dma_always(reset_ok, dma) ==
    << Call("vfu_setup_device_reset_cb"), Call("vfu_setup_device_dma") >>

\* The native calls of setup_other_callbacks: the reset callback, then the DMA
\* callbacks when the reset callback went in and setup_dma is set.
other_callbacks(reset_ok, dma) ==
    << Call("vfu_setup_device_reset_cb") >>
    \o (IF reset_ok /\ dma THEN << Call("vfu_setup_device_dma") >> ELSE << >>)

setup_other_callbacks ==
    /\ pc = "setup_other_callbacks"
    /\ \E reset_ok \in BOOLEAN, dma_ok \in BOOLEAN :
         IF ~reset_ok
         THEN Step(other_callbacks(reset_ok, setup_dma), vfu_ctx, FALSE,
                   Err("Failed to setup device reset callback"), "vfu_setup_device_reset_cb")
         ELSE IF setup_dma
         THEN Step(other_callbacks(reset_ok, setup_dma),
                   vfu_ctx, dma_ok, Err("Failed to setup DMA"), "vfu_setup_device_dma")
         ELSE Step(other_callbacks(reset_ok, setup_dma), vfu_ctx, TRUE, NoResult, "")
    /\ UNCHANGED << config_vars, dma_vars, work_vars, region_setups >>

setup_realize ==
    /\ pc = "setup_realize"
    /\ \E ok \in BOOLEAN :
         Step(<< Call("vfu_realize_ctx") >>, vfu_ctx, ok,
              Err("Failed to finalize device"), "vfu_realize_ctx")
    /\ UNCHANGED << config_vars, dma_vars, work_vars, region_setups >>

\* The caller lets go of the device that setup_all returned.
drop_device ==
    /\ pc = "realized"
    /\ pc' = "dropped"
    /\ calls' = calls \o DeviceContextDrop(vfu_ctx)
    /\ session' = IF Len(DeviceContextDrop(vfu_ctx)) > 0 THEN "destroyed" ELSE session
    /\ UNCHANGED << vfu_ctx, setup_result, failed_call, socket_file >>
    /\ UNCHANGED << config_vars, dma_vars, work_vars, region_setups >>

-----------------------------------------------------------------------------
(* The DMA table: dma_register_callback / dma_unregister_callback *)

EmptyTable == [b \in {} |-> 0]

\* A plausible slip: insert(iov_len, iov_base), the two fields of info swapped.
table_insert_swapped(table, base, len) ==
    [b \in DOMAIN table \cup {len} |-> IF b = len THEN base ELSE table[b]]

\* dma_regions.insert(base, len)
table_insert(table, base, len) ==
    [b \in DOMAIN table \cup {base} |-> IF b = base THEN len ELSE table[b]]

\* A plausible slip: a remove that clears the table.
table_remove_clear(table, base) == EmptyTable

\* dma_regions.remove(&base)
table_remove(table, base) ==
    [b \in DOMAIN table \ {base} |-> table[b]]

\* The native session runs the callbacks of a live, realized session, and the
\* DMA callbacks only if setup_other_callbacks installed them. mapped: whether
\* the region comes with a host address (info.vaddr).
dma_register_callback(base, len, mapped) ==
    /\ pc = "realized"
    /\ setup_dma
    /\ dma_regions' = table_insert(dma_regions, base, len)
    /\ host_vaddr' = IF mapped THEN host_vaddr \cup {base} ELSE host_vaddr \ {base}
    /\ UNCHANGED << config_vars, setup_vars, range, result, trace, stale_use, io_vars, run_vars >>

dma_unregister_callback(base) ==
    /\ pc = "realized"
    /\ setup_dma
    /\ dma_regions' = table_remove(dma_regions, base)
    /\ host_vaddr' = host_vaddr \ {base}
    /\ UNCHANGED << config_vars, setup_vars, range, result, trace, stale_use, io_vars, run_vars >>

-----------------------------------------------------------------------------
(* The DMA range / mapping engine *)

ZeroSg == [region |-> 0, length |-> 0]

NoRange == [state |-> "none", sgl_buffer |-> << >>, size |-> 0, region_count |-> 0,
            mapped_regions |-> << >>]
Dropped == [NoRange EXCEPT !.state = "dropped"]

NoOutcome == [op |-> "none", ok |-> FALSE, err |-> "", required |-> 0, available |-> 0,
              region_count |-> 0, size |-> 0]

NoTrace == [len |-> 0, max_regions |-> 0, table_empty |-> TRUE, table_kept |-> TRUE,
            addr_to_sgl |-> 0, ret |-> 0,
            verdicts |-> << >>, sgl_get |-> 0, sgl_get_ret |-> 0, sgl_get_buf |-> << >>,
            sgl_get_cnt |-> 0, sgl_put |-> 0, sgl_put_buf |-> << >>, sgl_put_cnt |-> 0,
            exit |-> ""]

RECURSIVE SumLen(_)
SumLen(s) == IF s = << >> THEN 0 ELSE s[1] + SumLen(Tail(s))

\* A plausible slip: the emptiness of the DMA table is not looked at.
dma_range_ensure_no_table(len, max_regions, table) ==
    IF len = 0 THEN "Mapping should not be empty. Skip calling if len == 0."
    ELSE IF max_regions = 0 THEN "At least 1 region is required."
    ELSE ""

\* The three ensure! of dma_range: "" when they all pass.
dma_range_ensure(len, max_regions, table) ==
    IF len = 0 THEN "Mapping should not be empty. Skip calling if len == 0."
    ELSE IF max_regions = 0 THEN "At least 1 region is required."
    ELSE IF DOMAIN table = {} THEN "No mappable regions registered"
    ELSE ""

\* A plausible slip: required reported as -ret.
dma_range_match_off_by_one(ret, len, max_regions) ==
    IF ret = 0
    THEN [NoOutcome EXCEPT !.op = "dma_range",
                           !.err = "Failed to populate sgl entries: no entries created"]
    ELSE IF ret = -1
    THEN [NoOutcome EXCEPT !.op = "dma_range",
                           !.err = "Failed to populate sgl entries: last os error"]
    ELSE IF ret < -1
    THEN [NoOutcome EXCEPT !.op = "dma_range",
                           !.err = "Failed to populate sgl entries, not enough sg entries available",
                           !.required = -ret, !.available = max_regions]
    ELSE [NoOutcome EXCEPT !.op = "dma_range", !.ok = TRUE,
                           !.region_count = ret, !.size = len]

\* The match on the value vfu_addr_to_sgl returned.
dma_range_match(ret, len, max_regions) ==
    IF ret = 0
    THEN [NoOutcome EXCEPT !.op = "dma_range",
                           !.err = "Failed to populate sgl entries: no entries created"]
    ELSE IF ret = -1
    THEN [NoOutcome EXCEPT !.op = "dma_range",
                           !.err = "Failed to populate sgl entries: last os error"]
    ELSE IF ret < -1
    THEN [NoOutcome EXCEPT !.op = "dma_range",
                           !.err = "Failed to populate sgl entries, not enough sg entries available",
                           !.required = -ret - 1, !.available = max_regions]
    ELSE [NoOutcome EXCEPT !.op = "dma_range", !.ok = TRUE,
                           !.region_count = ret, !.size = len]

\* What vfu_addr_to_sgl may answer: 0, -1, -(needed)-1, or a count of entries
\* within max_regions together with the entries it wrote, each in a registered
\* region and of at least one byte, covering len bytes in all.
NativeAddrToSgl(len, max_regions) ==
    { [ret |-> r, sgl |-> << >>] : r \in (-(MaxSg + 2)) .. 0 }
    \cup UNION { { [ret |-> k, sgl |-> e] :
                     e \in { f \in [1 .. k -> [region : DOMAIN dma_regions, length : 1 .. len]] :
                               SumLen([i \in 1 .. k |-> f[i].length]) = len } } :
                 k \in 1 .. max_regions }

\* dma_range on a live context; the object of an earlier call, if any, is gone.
dma_range(len, max_regions) ==
    /\ pc = "realized"
    /\ range.state \in {"none", "dropped"}
    /\ UNCHANGED << host_vaddr, dma_regions, stale_use >>
    /\ LET e == dma_range_ensure(len, max_regions, dma_regions)
           t == [NoTrace EXCEPT !.len = len, !.max_regions = max_regions,
                                !.table_empty = (DOMAIN dma_regions = {}),
                                !.table_kept = (dma_regions' = dma_regions)]
       IN  IF e # ""
           THEN /\ result' = [NoOutcome EXCEPT !.op = "dma_range", !.err = e]
                /\ trace' = t
                /\ range' = NoRange
           ELSE \E n \in NativeAddrToSgl(len, max_regions) :
                  /\ result' = dma_range_match(n.ret, len, max_regions)
                  /\ trace' = [t EXCEPT !.addr_to_sgl = 1, !.ret = n.ret]
                  /\ range' = IF result'.ok
                              THEN [state |-> "range",
                                    sgl_buffer |-> n.sgl \o [i \in 1 .. (max_regions - n.ret) |-> ZeroSg],
                                    size |-> result'.size,
                                    region_count |-> result'.region_count,
                                    mapped_regions |-> << >>]
                              ELSE NoRange
    /\ UNCHANGED << config_vars, setup_vars, hist, run_vars, dispatch >>

\* What vfu_sg_is_mappable answers for each chunk of the buffer: on a live
\* session whether the region the descriptor names has a host address (a
\* zero-filled descriptor names region 0); on a destroyed session, anything.
NativeVerdicts(buf) ==
    { v \in [1 .. Len(buf) -> BOOLEAN] :
        session = "live" => \A i \in 1 .. Len(buf) : v[i] = (buf[i].region \in host_vaddr) }

\* A plausible slip: only the first chunk is asked.
is_mappable_first(v) == Len(v) = 0 \/ v[1]

\* is_mappable: all chunks of sgl_buffer, as many as max_regions.
is_mappable(v) == \A i \in 1 .. Len(v) : v[i]

is_mappable_call ==
    /\ range.state = "range"
    /\ \E v \in NativeVerdicts(range.sgl_buffer) :
         /\ result' = [NoOutcome EXCEPT !.op = "is_mappable", !.ok = is_mappable(v)]
         /\ trace' = [trace EXCEPT !.verdicts = v]
    /\ stale_use' = (stale_use \/ session = "destroyed")
    /\ UNCHANGED << host_vaddr, dma_regions, range >>
    /\ UNCHANGED << config_vars, setup_vars, hist, work_vars >>

\* What vfu_sgl_get answers for cnt entries of buf: 0 and one span per entry,
\* of the entry's length, or -1; on a destroyed session, anything.
NativeSglGet(buf, cnt) ==
    { [ret |-> -1, iovs |-> [i \in 1 .. cnt |-> 0]] }
    \cup IF session = "live"
         THEN { [ret |-> 0, iovs |-> [i \in 1 .. cnt |-> buf[i].length]] }
         ELSE { [ret |-> 0, iovs |-> f] : f \in [1 .. cnt -> 0 .. MaxLen] }

\* A plausible slip: the mappability check left out.
into_mapping_unchecked(mappable, g) ==
    IF g.ret # 0
    THEN [ok |-> FALSE, err |-> "Failed to populate iovec array", sgl_get |-> 1,
          mapped_regions |-> << >>]
    ELSE [ok |-> TRUE, err |-> "", sgl_get |-> 1, mapped_regions |-> g.iovs]

\* into_mapping, given is_mappable's value and vfu_sgl_get's answer.
into_mapping(mappable, g) ==
    IF ~mappable
    THEN [ok |-> FALSE, err |-> "Dma range is not mappable.", sgl_get |-> 0,
          mapped_regions |-> << >>]
    ELSE IF g.ret # 0
    THEN [ok |-> FALSE, err |-> "Failed to populate iovec array", sgl_get |-> 1,
          mapped_regions |-> << >>]
    ELSE [ok |-> TRUE, err |-> "", sgl_get |-> 1, mapped_regions |-> g.iovs]

\* into_mapping consumes the range: on an error the range is dropped, and a
\* dropped DmaRange makes no native call.
into_mapping_call ==
    /\ range.state = "range"
    /\ \E v \in NativeVerdicts(range.sgl_buffer),
          g \in NativeSglGet(range.sgl_buffer, range.region_count) :
         LET m == into_mapping(is_mappable(v), g) IN
         /\ result' = [NoOutcome EXCEPT !.op = "into_mapping", !.ok = m.ok, !.err = m.err]
         /\ trace' = [trace EXCEPT !.verdicts = v,
                                   !.sgl_get = m.sgl_get,
                                   !.sgl_get_ret = IF m.sgl_get = 1 THEN g.ret ELSE 0,
                                   !.sgl_get_buf = IF m.sgl_get = 1 THEN range.sgl_buffer ELSE << >>,
                                   !.sgl_get_cnt = IF m.sgl_get = 1 THEN range.region_count ELSE 0]
         /\ range' = IF m.ok
                     THEN [range EXCEPT !.state = "mapping", !.mapped_regions = m.mapped_regions]
                     ELSE Dropped
    /\ stale_use' = (stale_use \/ session = "destroyed")
    /\ UNCHANGED << host_vaddr, dma_regions >>
    /\ UNCHANGED << config_vars, setup_vars, hist, work_vars >>

\* A plausible slip: a Drop that forgets vfu_sgl_put.
DmaMappingDropNoPut(t, r) == t

\* impl Drop for DmaMapping: vfu_sgl_put on the range's buffer, with as many
\* entries as mapped_regions holds.
DmaMappingDrop(t, r) ==
    [t EXCEPT !.sgl_put = t.sgl_put + 1,
              !.sgl_put_buf = r.sgl_buffer,
              !.sgl_put_cnt = Len(r.mapped_regions)]

DmaMapping_total_length(r) == SumLen(r.mapped_regions)

\* The mapping goes out of scope: at the end of its scope, by an early return,
\* or by an error raised after it was acquired.
drop_mapping ==
    /\ range.state = "mapping"
    /\ \E exit \in {"scope_end", "early_return", "error"} :
         trace' = [DmaMappingDrop(trace, range) EXCEPT !.exit = exit]
    /\ range' = Dropped
    /\ stale_use' = (stale_use \/ session = "destroyed")
    /\ UNCHANGED << host_vaddr, dma_regions, result >>
    /\ UNCHANGED << config_vars, setup_vars, hist, work_vars >>

\* A plausible slip: a DmaRange that releases on drop as a DmaMapping does.
DmaRangeDropPut(t, r) ==
    [t EXCEPT !.sgl_put = 1, !.sgl_put_buf = r.sgl_buffer, !.sgl_put_cnt = r.region_count]

\* DmaRange has no Drop: letting one go makes no native call.
DmaRangeDrop(t, r) == t

\* A DmaRange that is let go without being converted.
drop_range ==
    /\ range.state = "range"
    /\ range' = Dropped
    /\ trace' = DmaRangeDrop(trace, range)
    /\ UNCHANGED << host_vaddr, dma_regions, result, stale_use >>
    /\ UNCHANGED << config_vars, setup_vars, hist, work_vars >>

-----------------------------------------------------------------------------
(* read and write through a DmaRange *)

Bytes == {0, 1}

\* The count of entries read hands to vfu_sgl_read, and write to vfu_sgl_write.
read_sgl_cnt  == 1
write_sgl_cnt == 1

NoIo == [op |-> "none", ok |-> FALSE, err |-> "", native |-> 0, native_ret |-> 0, cnt |-> 0,
         size |-> 0, len |-> 0, data |-> << >>, mem_before |-> << >>]

NoWritten == [some |-> FALSE, data |-> << >>]

\* The bytes the first cnt entries of a buffer cover.
Covered(buf, cnt) ==
    SumLen([i \in 1 .. (IF cnt < Len(buf) THEN cnt ELSE Len(buf)) |-> buf[i].length])

\* What vfu_sgl_write does with cnt entries of buf: it copies data, in order,
\* over the guest bytes of those entries and answers 0, or it fails, answers
\* -1 and leaves the guest bytes alone.
NativeSglWrite(mem, buf, cnt, data) ==
    { [ret |-> -1, mem |-> mem],
      [ret |-> 0,
       mem |-> [i \in 1 .. Len(mem) |->
                  IF i <= Covered(buf, cnt) /\ i <= Len(data) THEN data[i] ELSE mem[i]]] }

\* What vfu_sgl_read does with cnt entries of buf: it copies the guest bytes
\* of those entries, in order, to the front of buffer and answers 0, or it
\* fails and answers -1.
NativeSglRead(mem, buf, cnt, buffer) ==
    { [ret |-> -1, buffer |-> buffer],
      [ret |-> 0,
       buffer |-> [i \in 1 .. Len(buffer) |->
                     IF i <= Covered(buf, cnt) /\ i <= Len(mem) THEN mem[i] ELSE buffer[i]]] }

\* A plausible slip: write without the check of the length of the data.
write_unchecked(r, data, n) ==
    IF n.ret # 0
    THEN [ok |-> FALSE, err |-> "Failed to write to dma range", native |-> 1]
    ELSE [ok |-> TRUE, err |-> "", native |-> 1]

\* write, given the answer n of vfu_sgl_write.
write(r, data, n) ==
    IF Len(data) # r.size
    THEN [ok |-> FALSE, err |-> "Must write exact size of dma range", native |-> 0]
    ELSE IF n.ret # 0
    THEN [ok |-> FALSE, err |-> "Failed to write to dma range", native |-> 1]
    ELSE [ok |-> TRUE, err |-> "", native |-> 1]

write_call(data) ==
    /\ range.state = "range"
    /\ \E n \in NativeSglWrite(guest_mem, range.sgl_buffer, write_sgl_cnt, data) :
         LET w == write(range, data, n) IN
         /\ io' = [NoIo EXCEPT !.op = "write", !.ok = w.ok, !.err = w.err,
                               !.native = w.native, !.size = range.size,
                               !.native_ret = IF w.native = 1 THEN n.ret ELSE 0,
                               !.cnt = IF w.native = 1 THEN write_sgl_cnt ELSE 0,
                               !.len = Len(data), !.mem_before = guest_mem]
         /\ guest_mem' = IF w.native = 1 THEN n.mem ELSE guest_mem
         /\ written' = IF w.ok THEN [some |-> TRUE, data |-> data]
                       ELSE IF w.native = 1 THEN NoWritten
                       ELSE written
    /\ UNCHANGED << config_vars, setup_vars, dma_vars, run_vars, dispatch >>

\* read, given the answer n of vfu_sgl_read on a zeroed buffer of size bytes.
read(r, n) ==
    IF n.ret # 0
    THEN [ok |-> FALSE, err |-> "Failed to read from dma range", data |-> << >>]
    ELSE [ok |-> TRUE, err |-> "", data |-> n.buffer]

read_call ==
    /\ range.state = "range"
    /\ \E n \in NativeSglRead(guest_mem, range.sgl_buffer, read_sgl_cnt,
                              [i \in 1 .. range.size |-> 0]) :
         LET rd == read(range, n) IN
         io' = [NoIo EXCEPT !.op = "read", !.ok = rd.ok, !.err = rd.err, !.native = 1,
                            !.native_ret = n.ret, !.size = range.size,
                            !.cnt = read_sgl_cnt, !.len = Len(rd.data), !.data = rd.data,
                            !.mem_before = guest_mem]
    /\ UNCHANGED << guest_mem, written >>
    /\ UNCHANGED << config_vars, setup_vars, dma_vars, run_vars, dispatch >>

-----------------------------------------------------------------------------
(* attach and run *)

NoSessionOut == [op |-> "none", native |-> 0, ret |-> 0, errno |-> 0, value |-> "none",
                 count |-> 0, pending_before |-> 0]

\* The platform error Error::kind() reports as ErrorKind::WouldBlock.
EAGAIN == 11

\* The platform errors a native call may leave: EIO, EAGAIN, ENOTCONN.
Errnos == {5, EAGAIN, 107}

\* What vfu_attach_ctx may answer: 0, or -1 with a platform error, which is
\* EAGAIN only on a session created with LIBVFIO_USER_FLAG_ATTACH_NB (a
\* blocking session waits for the client instead).
NativeAttach ==
    { [ret |-> 0, errno |-> errno] }
    \cup { [ret |-> -1, errno |-> e] : e \in { x \in Errnos : x = EAGAIN => non_blocking } }

\* A plausible slip: attach that tries again by itself when it would block.
attach_retry(ns) ==
    LET first == IF ns[1].ret # 0
                 THEN (IF ns[1].errno = EAGAIN THEN "WouldBlock" ELSE "Err")
                 ELSE "Attached"
        n == IF first = "WouldBlock" THEN ns[2] ELSE ns[1]
    IN  [value |-> IF n.ret # 0
                   THEN (IF n.errno = EAGAIN THEN "WouldBlock" ELSE "Err")
                   ELSE "Attached",
         native |-> IF first = "WouldBlock" THEN 2 ELSE 1, ret |-> n.ret, errno |-> n.errno]

\* attach, given the answers ns the native session would give to successive
\* calls of vfu_attach_ctx: the value returned (Ok(Some(())) is "Attached",
\* Ok(None) is "WouldBlock"), the number of native calls made, and the answer
\* that decided.
attach(ns) ==
    LET n == ns[1] IN
    [value |-> IF n.ret # 0
               THEN (IF n.errno = EAGAIN THEN "WouldBlock" ELSE "Err")
               ELSE "Attached",
     native |-> 1, ret |-> n.ret, errno |-> n.errno]

attach_call ==
    /\ pc = "realized"
    /\ \E n1 \in NativeAttach, n2 \in NativeAttach :
         LET a == attach(<< n1, n2 >>) IN
         /\ session_out' = [NoSessionOut EXCEPT !.op = "attach", !.native = a.native,
                                                !.ret = a.ret, !.errno = a.errno,
                                                !.value = a.value,
                                                !.pending_before = pending]
         /\ errno' = a.errno
    /\ UNCHANGED pending
    /\ UNCHANGED << config_vars, setup_vars, dma_vars, io_vars, dispatch >>

\* What vfu_run_ctx may answer with p requests pending: a negative value and
\* a platform error; on a non-blocking session one request processed if there
\* is one and 0 if there is none; on a blocking session the requests it
\* processed, at least one.
NativeRun(p) ==
    { [ret |-> r, errno |-> e, processed |-> k] :
        r \in {-2, -1}, e \in Errnos \ {EAGAIN}, k \in 0 .. p }
    \cup IF non_blocking
         THEN { [ret |-> IF p > 0 THEN 1 ELSE 0, errno |-> errno,
                 processed |-> IF p > 0 THEN 1 ELSE 0] }
         ELSE { [ret |-> k, errno |-> errno, processed |-> k] : k \in 1 .. p }

\* A plausible slip: run that goes on until the session has nothing to do.
run_until_idle(ns) ==
    IF ns[1].ret < 0
    THEN [value |-> "Err", count |-> 0, native |-> 1, ret |-> ns[1].ret,
          errno |-> ns[1].errno, processed |-> ns[1].processed]
    ELSE IF ns[1].ret = 0
    THEN [value |-> "Ok", count |-> 0, native |-> 1, ret |-> 0,
          errno |-> ns[1].errno, processed |-> 0]
    ELSE IF ns[2].ret < 0
    THEN [value |-> "Err", count |-> 0, native |-> 2, ret |-> ns[2].ret,
          errno |-> ns[2].errno, processed |-> ns[1].processed + ns[2].processed]
    ELSE [value |-> "Ok", count |-> ns[1].ret + ns[2].ret, native |-> 2, ret |-> ns[2].ret,
          errno |-> ns[2].errno, processed |-> ns[1].processed + ns[2].processed]

\* run, given the answers ns the native session would give to successive
\* calls of vfu_run_ctx: Ok(ret as u32) or Err, the number of native calls
\* made, and the answer that decided.
run(ns) ==
    LET n == ns[1] IN
    IF n.ret < 0
    THEN [value |-> "Err", count |-> 0, native |-> 1, ret |-> n.ret,
          errno |-> n.errno, processed |-> n.processed]
    ELSE [value |-> "Ok", count |-> n.ret, native |-> 1, ret |-> n.ret,
          errno |-> n.errno, processed |-> n.processed]

run_call ==
    /\ pc = "realized"
    /\ \E n1 \in NativeRun(pending) :
         \E n2 \in NativeRun(pending - n1.processed) :
           LET r == run(<< n1, n2 >>) IN
           /\ session_out' = [NoSessionOut EXCEPT !.op = "run", !.native = r.native,
                                                  !.ret = r.ret, !.errno = r.errno,
                                                  !.value = r.value, !.count = r.count,
                                                  !.pending_before = pending]
           /\ errno' = r.errno
           /\ pending' = pending - r.processed
    /\ UNCHANGED << config_vars, setup_vars, dma_vars, io_vars, dispatch >>

\* The client sends a request.
client_request ==
    /\ pc = "realized"
    /\ pending < MaxPending
    /\ pending' = pending + 1
    /\ UNCHANGED << errno, session_out >>
    /\ UNCHANGED << config_vars, setup_vars, dma_vars, io_vars, dispatch >>

-----------------------------------------------------------------------------
(* The dispatch callbacks: log, region access, reset *)

NoDeviceResult == [kind |-> "none", val |-> 0]

\* The last callback run: what the native session asked (idx, req_*), what
\* the device was called with (method, offset, buf_len, is_write, reason),
\* what the device answered and what the callback returned.
NoDispatch == [cb |-> "none", idx |-> -1, R |-> -1,
               req_offset |-> 0, req_count |-> 0, req_write |-> FALSE,
               method |-> "none", device_calls |-> 0,
               offset |-> 0, buf_len |-> 0, is_write |-> FALSE,
               valid_text |-> TRUE, reset_type |-> "none", reason |-> "none",
               device_result |-> NoDeviceResult, ret |-> 0, errno_before |-> 0,
               panicked |-> FALSE,
               dma_base |-> -1, dma_len |-> 0, dma_before |-> EmptyTable]

\* The i32 codes a device method may fail with.
Codes == {-1, 5, 22}

\* n as isize, and off as usize.
as_isize(n) == IF n < 2 ^ (UsizeBits - 1) THEN n ELSE n - 2 ^ UsizeBits
as_usize(off) == IF off >= 0 THEN off ELSE off + 2 ^ UsizeBits

\* The callback instance chosen for a region kind: region_access_callback::<T, R>.
get_region_access_callback_fn(k) ==
    LET t == to_vfu_region_type(k) IN
    CASE t = 0 -> 0
      [] t = 1 -> 1
      [] t = 2 -> 2
      [] t = 3 -> 3
      [] t = 4 -> 4
      [] t = 5 -> 5
      [] t = 6 -> 6
      [] t = 7 -> 7
      [] t = 8 -> 8
      [] t = 9 -> 9

\* The callback setup_device_regions handed to vfu_setup_region for the
\* protocol index idx of a configured region.
installed_callback(idx) ==
    LET i == CHOOSE j \in 1 .. Len(device_regions) :
                 to_vfu_region_type(device_regions[j]) = idx
    IN  get_region_access_callback_fn(device_regions[i])

ConfiguredIndices ==
    { to_vfu_region_type(device_regions[i]) : i \in 1 .. Len(device_regions) }

\* A plausible slip: two arms of the match on R exchanged.
region_access_method_swapped(R) ==
    CASE R = 0 -> "region_access_bar0"
      [] R = 1 -> "region_access_bar1"
      [] R = 2 -> "region_access_bar2"
      [] R = 3 -> "region_access_bar3"
      [] R = 4 -> "region_access_bar4"
      [] R = 5 -> "region_access_bar5"
      [] R = 6 -> "region_access_config"
      [] R = 7 -> "region_access_rom"
      [] R = 8 -> "region_access_vga"
      [] R = 9 -> "region_access_migration"

\* The match on R of region_access_callback.
region_access_method(R) ==
    CASE R = 0 -> "region_access_bar0"
      [] R = 1 -> "region_access_bar1"
      [] R = 2 -> "region_access_bar2"
      [] R = 3 -> "region_access_bar3"
      [] R = 4 -> "region_access_bar4"
      [] R = 5 -> "region_access_bar5"
      [] R = 6 -> "region_access_rom"
      [] R = 7 -> "region_access_config"
      [] R = 8 -> "region_access_vga"
      [] R = 9 -> "region_access_migration"

\* What a region_access method of the device may do with a buffer of count
\* bytes: Ok(n) with n within the buffer, Err(code), or a panic (the default
\* body of the trait, unimplemented!(), when the device did not override it).
DeviceRegionResults(count) ==
    { [kind |-> "Ok", val |-> n] : n \in 0 .. count }
    \cup { [kind |-> "Err", val |-> c] : c \in Codes }
    \cup { [kind |-> "panic", val |-> 0] }

\* A plausible slip: the negated code returned, the platform error left alone.
region_access_result_negated(d, e) ==
    IF d.kind = "Ok" THEN [ret |-> as_isize(d.val), errno |-> e]
    ELSE [ret |-> -d.val, errno |-> e]

\* The match on the device's result: the value returned and the platform
\* error afterwards, e being the platform error before.
region_access_result(d, e) ==
    IF d.kind = "Ok" THEN [ret |-> as_isize(d.val), errno |-> e]
    ELSE [ret |-> -1, errno |-> d.val]

\* The native session runs the access callback of region idx; it runs one
\* callback at a time.
region_access_callback(idx, count, offset, is_write) ==
    /\ pc = "realized"
    /\ dispatch.cb = "none"
    /\ idx \in ConfiguredIndices
    /\ \E d \in DeviceRegionResults(count) :
         LET R == installed_callback(idx)
             out == region_access_result(d, errno)
         IN  /\ dispatch' = [NoDispatch EXCEPT
                               !.cb = "region_access_callback", !.idx = idx, !.R = R,
                               !.req_offset = offset, !.req_count = count,
                               !.req_write = is_write,
                               !.method = region_access_method(R), !.device_calls = 1,
                               !.offset = as_usize(offset), !.buf_len = count,
                               !.is_write = is_write,
                               !.device_result = d,
                               !.ret = IF d.kind = "panic" THEN 0 ELSE out.ret,
                               !.errno_before = errno,
                               !.panicked = (d.kind = "panic")]
             /\ errno' = IF d.kind = "panic" THEN errno ELSE out.errno
    /\ UNCHANGED << pending, session_out >>
    /\ UNCHANGED << config_vars, setup_vars, dma_vars, io_vars >>

\* msg.to_str().unwrap(): a message that is not valid UTF-8 panics before the
\* device's log is called.
log_callback(valid_text) ==
    /\ pc = "realized"
    /\ dispatch.cb = "none"
    /\ dispatch' = [NoDispatch EXCEPT
                      !.cb = "log_callback", !.valid_text = valid_text,
                      !.method = IF valid_text THEN "log" ELSE "none",
                      !.device_calls = IF valid_text THEN 1 ELSE 0,
                      !.errno_before = errno,
                      !.panicked = ~valid_text]
    /\ UNCHANGED run_vars
    /\ UNCHANGED << config_vars, setup_vars, dma_vars, io_vars >>

ResetTypes == {"VFU_RESET_DEVICE", "VFU_RESET_LOST_CONN", "VFU_RESET_PCI_FLR"}

\* A plausible slip: two arms of the match on reset_type exchanged.
reset_reason_swapped(reset_type) ==
    CASE reset_type = "VFU_RESET_DEVICE"    -> "ClientRequest"
      [] reset_type = "VFU_RESET_LOST_CONN" -> "PciReset"
      [] reset_type = "VFU_RESET_PCI_FLR"   -> "LostConnection"

\* The match on reset_type of reset_callback.
reset_reason(reset_type) ==
    CASE reset_type = "VFU_RESET_DEVICE"    -> "ClientRequest"
      [] reset_type = "VFU_RESET_LOST_CONN" -> "LostConnection"
      [] reset_type = "VFU_RESET_PCI_FLR"   -> "PciReset"

\* What the device's reset may answer: Ok(()) or Err(code).
DeviceResetResults ==
    { [kind |-> "Ok", val |-> 0] } \cup { [kind |-> "Err", val |-> c] : c \in Codes }

\* device.reset(reason).err().unwrap_or(0)
reset_result(d) == IF d.kind = "Err" THEN d.val ELSE 0

reset_callback(reset_type) ==
    /\ pc = "realized"
    /\ dispatch.cb = "none"
    /\ \E d \in DeviceResetResults :
         dispatch' = [NoDispatch EXCEPT
                        !.cb = "reset_callback", !.reset_type = reset_type,
                        !.reason = reset_reason(reset_type),
                        !.method = "reset", !.device_calls = 1,
                        !.device_result = d, !.ret = reset_result(d),
                        !.errno_before = errno]
    /\ UNCHANGED run_vars
    /\ UNCHANGED << config_vars, setup_vars, dma_vars, io_vars >>

\* The callback returns and the native session takes what it returned; a
\* callback that panicked does not return.
callback_return ==
    /\ dispatch.cb # "none"
    /\ ~dispatch.panicked
    /\ dispatch' = NoDispatch
    /\ UNCHANGED run_vars
    /\ UNCHANGED << config_vars, setup_vars, dma_vars, io_vars >>

-----------------------------------------------------------------------------
(* The configure-and-setup specification *)

\* Nothing read, written, attached, run or dispatched yet.
WorkInit ==
    /\ guest_mem = << >>
    /\ written = NoWritten
    /\ io = NoIo
    /\ pending = 0
    /\ errno = 0
    /\ session_out = NoSessionOut
    /\ dispatch = NoDispatch

DmaInit ==
    /\ host_vaddr = {}
    /\ dma_regions = EmptyTable
    /\ hist = [b \in Bases |-> [ev |-> "none", len |-> 0]]
    /\ range = NoRange
    /\ result = NoOutcome
    /\ trace = NoTrace
    /\ stale_use = FALSE

\* After a setup that succeeded: every region was handed to vfu_setup_region
\* and nothing is in the way at the socket path. The regions are plain ones.
RealizedRegions ==
    /\ region_attrs = [i \in 1 .. Len(device_regions) |-> PlainRegion]
    /\ socket_file = "absent"
    /\ region_setups = [i \in 1 .. Len(device_regions) |->
                           setup_region_args(device_regions[i], PlainRegion)]

InitSetup ==
    /\ device_regions = << >>
    /\ regions_some = FALSE
    /\ setup_dma \in BOOLEAN
    /\ overwrite_socket \in BOOLEAN
    /\ non_blocking \in BOOLEAN
    /\ build_result = [ok |-> FALSE, err |-> "", idx |-> -1]
    /\ pc = "configure"
    /\ vfu_ctx = "None"
    /\ calls = << >>
    /\ setup_result = NoResult
    /\ failed_call = ""
    /\ session = "none"
    /\ region_attrs = << >>
    /\ socket_file \in {"absent", "socket", "other"}
    /\ region_setups = << >>
    /\ DmaInit
    /\ WorkInit

NextSetup ==
    \/ \E k \in DeviceRegionKind : add_device_region(k, PlainRegion)
    \/ build
    \/ setup_create_device
    \/ setup_log
    \/ setup_pci
    \/ setup_device_regions
    \/ setup_other_callbacks
    \/ setup_realize
    \/ drop_device

SpecSetup == InitSetup /\ [][NextSetup]_vars

-----------------------------------------------------------------------------
(* Setup of a built configuration whose regions differ in every field *)

\* Sizes, descriptors and offsets a region is configured with.
RegionGeometries ==
    { [size |-> 1, file_descriptor |-> -1, offset |-> 0],
      [size |-> 2, file_descriptor |-> 3, offset |-> 1] }

RegionAttrs ==
    { [size |-> g.size, file_descriptor |-> g.file_descriptor, offset |-> g.offset,
       read |-> r, write |-> w, memory |-> m] :
         g \in RegionGeometries, r \in BOOLEAN, w \in BOOLEAN, m \in BOOLEAN }

\* A BAR, both Config variants and one more kind.
RegionKinds ==
    { k \in DeviceRegionKind : k.kind \in {"Bar0", "Config", "Migration"} }

\* The configurations build accepts: lists without a repeated index.
BuiltRegionLists ==
    UNION { { l \in [1 .. n -> RegionKinds] : validate(TRUE, l).ok } : n \in 1 .. MaxRegions }

InitRegions ==
    /\ device_regions \in BuiltRegionLists
    /\ region_attrs \in [1 .. Len(device_regions) -> RegionAttrs]
    /\ regions_some = TRUE
    /\ setup_dma = FALSE
    /\ overwrite_socket = FALSE
    /\ non_blocking = FALSE
    /\ build_result = [ok |-> TRUE, err |-> "", idx |-> -1]
    /\ pc = "setup_create_device"
    /\ vfu_ctx = "None"
    /\ calls = << >>
    /\ setup_result = NoResult
    /\ failed_call = ""
    /\ session = "none"
    /\ socket_file = "absent"
    /\ region_setups = << >>
    /\ DmaInit
    /\ WorkInit

NextRegions ==
    \/ setup_create_device
    \/ setup_log
    \/ setup_pci
    \/ setup_device_regions
    \/ setup_other_callbacks
    \/ setup_realize
    \/ drop_device

SpecRegions == InitRegions /\ [][NextRegions]_vars

-----------------------------------------------------------------------------
(* The device at work: a realized context, DMA events and the DMA engine *)

\* The steps of a setup that succeeds, in order.
FullOrder ==
    << Call("vfu_create_ctx"), Call("vfu_setup_log"), Call("vfu_pci_init"),
       Call("vfu_pci_set_id"), Call("vfu_pci_set_class"), Call("vfu_pci_get_config_space") >>
    \o [i \in 1 .. Len(device_regions) |->
          [fn |-> "vfu_setup_region", idx |-> to_vfu_region_type(device_regions[i])]]
    \o << Call("vfu_setup_device_reset_cb") >>
    \o (IF setup_dma THEN << Call("vfu_setup_device_dma") >> ELSE << >>)
    \o << Call("vfu_realize_ctx") >>

\* The state setup_all leaves behind when every step succeeded.
Init ==
    /\ device_regions = << [kind |-> "Bar0"] >>
    /\ regions_some = TRUE
    /\ setup_dma \in BOOLEAN
    /\ overwrite_socket = FALSE
    /\ non_blocking = FALSE
    /\ build_result = [ok |-> TRUE, err |-> "", idx |-> -1]
    /\ pc = "realized"
    /\ vfu_ctx = "Some"
    /\ calls = FullOrder
    /\ setup_result = OkResult
    /\ failed_call = ""
    /\ session = "live"
    /\ RealizedRegions
    /\ DmaInit
    /\ WorkInit

\* The engine never reads a region's length: here every region is registered
\* with the largest one (SpecDma registers every length).
Next ==
    \/ \E b \in Bases, m \in BOOLEAN :
         dma_register_callback(b, MaxRegLen, m) /\ UNCHANGED << hist, dispatch >>
    \/ \E b \in Bases : dma_unregister_callback(b) /\ UNCHANGED << hist, dispatch >>
    \/ \E len \in 0 .. MaxLen, max_regions \in 0 .. MaxSg :
         dma_range(len, max_regions) /\ UNCHANGED io_vars
    \/ is_mappable_call
    \/ into_mapping_call
    \/ drop_mapping
    \/ drop_range
    \/ drop_device

Spec == Init /\ [][Next]_vars

-----------------------------------------------------------------------------
(* DMA events alone, with the history of the events of each base *)

\* The events seen for a base: none; one register (with its length); one
\* register and then one unregister; or anything else ("other").
hist_register(h, base, len) ==
    [h EXCEPT ![base] = IF h[base].ev = "none" THEN [ev |-> "reg", len |-> len]
                        ELSE [ev |-> "other", len |-> 0]]

hist_unregister(h, base) ==
    [h EXCEPT ![base] = IF h[base].ev = "reg" THEN [ev |-> "unreg", len |-> 0]
                        ELSE [ev |-> "other", len |-> 0]]

\* What a DMA callback leaves in the record of the last dispatch: it ran, it
\* called no method of the device, it returned.
dma_callback_dispatch(cb) == [NoDispatch EXCEPT !.cb = cb, !.errno_before = errno]

NextDma ==
    \/ \E b \in Bases, l \in RegLens, m \in BOOLEAN :
         /\ dma_register_callback(b, l, m)
         /\ hist' = hist_register(hist, b, l)
         /\ dispatch' = dma_callback_dispatch("dma_register_callback")
    \/ \E b \in Bases :
         /\ dma_unregister_callback(b)
         /\ hist' = hist_unregister(hist, b)
         /\ dispatch' = dma_callback_dispatch("dma_unregister_callback")

InitDma == Init /\ setup_dma

SpecDma == InitDma /\ [][NextDma]_vars

-----------------------------------------------------------------------------
(* Reading and writing guest memory through a DmaRange *)

DataSeqs == UNION { [1 .. n -> Bytes] : n \in 0 .. MaxLen }

\* A new range: whatever the guest holds behind it, and nothing written yet.
NextIo ==
    \/ \E b \in Bases :
         dma_register_callback(b, MaxRegLen, TRUE) /\ UNCHANGED << hist, dispatch >>
    \/ \E len \in 0 .. MaxLen, max_regions \in 0 .. MaxSg :
         /\ dma_range(len, max_regions)
         /\ guest_mem' \in [1 .. range'.size -> Bytes]
         /\ written' = NoWritten
         /\ io' = NoIo
    \/ \E data \in DataSeqs : write_call(data)
    \/ read_call
    \/ drop_range

SpecIo == InitDma /\ [][NextIo]_vars

-----------------------------------------------------------------------------
(* The session at work: attach and run *)

InitSession ==
    /\ device_regions = << [kind |-> "Bar0"] >>
    /\ regions_some = TRUE
    /\ setup_dma = FALSE
    /\ overwrite_socket = FALSE
    /\ non_blocking \in BOOLEAN
    /\ build_result = [ok |-> TRUE, err |-> "", idx |-> -1]
    /\ pc = "realized"
    /\ vfu_ctx = "Some"
    /\ calls = FullOrder
    /\ setup_result = OkResult
    /\ failed_call = ""
    /\ session = "live"
    /\ RealizedRegions
    /\ DmaInit
    /\ WorkInit

NextSession ==
    \/ client_request
    \/ attach_call
    \/ run_call
    \/ drop_device

SpecSession == InitSession /\ [][NextSession]_vars

-----------------------------------------------------------------------------
(* The session dispatching to the device *)

\* The lists of regions build accepts, as far as dispatch can tell them
\* apart: up to MaxRegions regions of distinct protocol indices, by rising
\* index (the order of the list plays no part once setup is done).
RegionLists ==
    { r \in UNION { [1 .. n -> DeviceRegionKind] : n \in 1 .. MaxRegions } :
        \A i, j \in 1 .. Len(r) :
            i < j => to_vfu_region_type(r[i]) < to_vfu_region_type(r[j]) }

InitDispatch ==
    /\ device_regions \in RegionLists
    /\ regions_some = TRUE
    /\ setup_dma = FALSE
    /\ overwrite_socket = FALSE
    /\ non_blocking = FALSE
    /\ build_result = [ok |-> TRUE, err |-> "", idx |-> -1]
    /\ pc = "realized"
    /\ vfu_ctx = "Some"
    /\ calls = FullOrder
    /\ setup_result = OkResult
    /\ failed_call = ""
    /\ session = "live"
    /\ RealizedRegions
    /\ DmaInit
    /\ WorkInit

NextDispatch ==
    \/ \E valid_text \in BOOLEAN : log_callback(valid_text)
    \/ \E idx \in 0 .. 9, count \in 0 .. MaxCount, offset \in 0 .. MaxOffset,
          is_write \in BOOLEAN :
         region_access_callback(idx, count, offset, is_write)
    \/ \E reset_type \in ResetTypes : reset_callback(reset_type)
    \/ callback_return

SpecDispatch == InitDispatch /\ [][NextDispatch]_vars

-----------------------------------------------------------------------------
(* The DMA table next to everything else a realized device does *)

\* What a DMA callback leaves in the record of the last dispatch, with the
\* event it was called for and the table it found.
dma_event_dispatch(cb, base, len) ==
    [NoDispatch EXCEPT !.cb = cb, !.errno_before = errno,
                       !.dma_base = base, !.dma_len = len, !.dma_before = dma_regions]

\* Each behaviour uses, next to the DMA events, one of: the DMA engine with
\* read and write, the session (attach and run), the dispatch callbacks. The
\* engine maps one byte in one entry and the guest accesses one byte of BAR0:
\* what is varied here is the table.
EngineUntouched == range = NoRange /\ result = NoOutcome /\ io = NoIo /\ trace = NoTrace
SessionUntouched == pending = 0 /\ session_out = NoSessionOut
Idle == dispatch.cb = "none"

NextTable ==
    \/ \E b \in Bases, l \in RegLens :
         /\ Idle
         /\ dma_register_callback(b, l, TRUE)
         /\ dispatch' = dma_event_dispatch("dma_register_callback", b, l)
         /\ UNCHANGED hist
    \/ \E b \in Bases :
         /\ Idle
         /\ dma_unregister_callback(b)
         /\ dispatch' = dma_event_dispatch("dma_unregister_callback", b, 0)
         /\ UNCHANGED hist
    \/ callback_return
    \/ \E len \in {1}, max_regions \in {1} :
         /\ Idle /\ SessionUntouched /\ errno = 0
         /\ dma_range(len, max_regions)
         /\ guest_mem' = [i \in 1 .. range'.size |-> 0]
         /\ written' = NoWritten
         /\ io' = NoIo
    \/ Idle /\ into_mapping_call
    \/ Idle /\ drop_mapping
    \/ Idle /\ drop_range
    \/ \E data \in {<< 0 >>} : Idle /\ write_call(data)
    \/ Idle /\ read_call
    \/ Idle /\ EngineUntouched /\ client_request
    \/ Idle /\ EngineUntouched /\ attach_call
    \/ Idle /\ EngineUntouched /\ run_call
    \/ \E idx \in {0}, count \in {1}, offset \in {0}, is_write \in BOOLEAN :
         /\ EngineUntouched /\ SessionUntouched
         /\ region_access_callback(idx, count, offset, is_write)
    \/ \E reset_type \in ResetTypes :
         /\ EngineUntouched /\ SessionUntouched
         /\ reset_callback(reset_type)

SpecTable == InitDma /\ [][NextTable]_vars

-----------------------------------------------------------------------------
(* Claims about the configurator and setup_all *)

\* Two kinds name the same protocol region: the always_callback of Config is
\* a flag of the region, not part of its identity.
SameRegion(a, b) == a.kind = b.kind

HasDuplicateRegion(regions) ==
    \E i, j \in 1 .. Len(regions) : i < j /\ SameRegion(regions[i], regions[j])

\* C1: validate, run by build, rejects the region list if and only if two of
\* its entries map to the same protocol region index; Config with
\* always_callback true and false are the same index, and a list of pairwise
\* distinct indices is accepted by validate.
C1_ValidateRejectsIffDuplicate ==
    pc # "configure" =>
        ( (build_result.err = "Duplicate device region")
            <=> HasDuplicateRegion(device_regions) )

C1_Witness ==
    /\ pc = "rejected"
    /\ build_result.err = "Duplicate device region"
    /\ build_result.idx = 7
    /\ device_regions = << [kind |-> "Config", always_callback |-> TRUE],
                           [kind |-> "Config", always_callback |-> FALSE] >>

DestroyCount == Cardinality({ i \in DOMAIN calls : calls[i].fn = "vfu_destroy_ctx" })

\* vfu_create_ctx was called and returned a session.
SessionCreated ==
    /\ \E i \in DOMAIN calls : calls[i].fn = "vfu_create_ctx"
    /\ failed_call # "vfu_create_ctx"

ContextDropped == pc \in {"failed", "dropped"}

\* C7: the native session is destroyed exactly once: once the owning context
\* is dropped (by the caller, or on the way out of a setup that failed at a
\* later step) vfu_destroy_ctx has been called exactly once if the session
\* was created and never if its creation failed; it is never called while the
\* context is alive, and it is the last native call.
C7_DestroyedExactlyOnce ==
    /\ DestroyCount <= 1
    /\ ContextDropped => DestroyCount = (IF SessionCreated THEN 1 ELSE 0)
    /\ ~ContextDropped => DestroyCount = 0
    /\ DestroyCount = 1 => calls[Len(calls)].fn = "vfu_destroy_ctx"

C7_Witness ==
    /\ pc = "failed"
    /\ failed_call = "vfu_realize_ctx"
    /\ DestroyCount = 1
    /\ session = "destroyed"

IsSessionCall(c) == c.fn \notin {"remove_file", "vfu_destroy_ctx"}
SessionCalls == SelectSeq(calls, IsSessionCall)

IsPrefix(s, t) == Len(s) <= Len(t) /\ \A i \in 1 .. Len(s) : s[i] = t[i]

ErrorNaming(fn) ==
    CASE fn = "vfu_create_ctx"            -> "Failed to create VFIO context"
      [] fn = "vfu_setup_log"             -> "Failed to setup logging"
      [] fn = "vfu_pci_init"              -> "Failed to setup PCI"
      [] fn = "vfu_setup_region"          -> "Failed to setup region"
      [] fn = "vfu_setup_device_reset_cb" -> "Failed to setup device reset callback"
      [] fn = "vfu_setup_device_dma"      -> "Failed to setup DMA"
      [] fn = "vfu_realize_ctx"           -> "Failed to finalize device"
      [] OTHER                            -> "?"

FailableSessionCalls ==
    {"vfu_create_ctx", "vfu_setup_log", "vfu_pci_init", "vfu_setup_region",
     "vfu_setup_device_reset_cb", "vfu_setup_device_dma", "vfu_realize_ctx"}

\* C8: setup makes the native calls in the fixed order create session, log,
\* PCI, regions in list order, reset dispatch, DMA dispatch, realize; the
\* first call that fails ends the sequence (it is the last session call made,
\* so realize and the remaining regions are never reached), setup returns the
\* error that names that call, and the context is returned only when every
\* call succeeded.
C8_SetupOrderAndAbort ==
    /\ IsPrefix(SessionCalls, FullOrder)
    /\ pc \in {"realized", "dropped"} =>
          SessionCalls = FullOrder /\ setup_result.ok /\ failed_call = ""
    /\ failed_call # "" => pc = "failed" /\ ~setup_result.ok
    /\ pc = "failed" => failed_call # ""
    /\ failed_call \in FailableSessionCalls =>
          /\ SessionCalls # << >>
          /\ SessionCalls[Len(SessionCalls)].fn = failed_call
          /\ setup_result.msg = ErrorNaming(failed_call)
          /\ failed_call = "vfu_setup_region" =>
                to_vfu_region_type(setup_result.region) = SessionCalls[Len(SessionCalls)].idx

C8_Witness ==
    /\ pc = "failed"
    /\ failed_call = "vfu_setup_region"
    /\ Len(device_regions) = 2
    /\ Cardinality({ i \in DOMAIN calls : calls[i].fn = "vfu_setup_region" }) = 1
    /\ \A i \in DOMAIN calls : calls[i].fn # "vfu_realize_ctx"

-----------------------------------------------------------------------------
(* Claims about the DMA table *)

Registered   == { b \in Bases : hist[b].ev \in {"reg", "unreg"} }
Unregistered == { b \in Bases : hist[b].ev = "unreg" }

\* Every base was registered at most once and unregistered at most once, and
\* then only after its own register.
DistinctBases == \A b \in Bases : hist[b].ev # "other"

\* C2: after N register events with pairwise distinct bases and M < N
\* unregister events, each for a distinct one of those bases and after its
\* register, the DMA table holds exactly N - M entries, each base mapped to
\* the length of its register event.
C2_TableAfterEvents ==
    (DistinctBases /\ Cardinality(Unregistered) < Cardinality(Registered)) =>
        /\ Cardinality(DOMAIN dma_regions) = Cardinality(Registered) - Cardinality(Unregistered)
        /\ DOMAIN dma_regions = Registered \ Unregistered
        /\ \A b \in DOMAIN dma_regions : dma_regions[b] = hist[b].len

C2_Witness ==
    /\ DistinctBases
    /\ Cardinality(Registered) = 2
    /\ Cardinality(Unregistered) = 1
    /\ DOMAIN dma_regions = {1}
    /\ dma_regions[1] = 2

-----------------------------------------------------------------------------
(* Claims about the DMA engine *)

\* C3: dma_range maps the value ret of vfu_addr_to_sgl: 0 to the error "no
\* entries created"; -1 to the error that wraps the last OS error; ret < -1
\* to the not-enough-entries error with required = -ret - 1 and available =
\* max_regions; ret > 0 to a DmaRange with region_count = ret and size = len.
\* No DmaRange exists after any of the three errors.
C3_RetMapping ==
    (result.op = "dma_range" /\ trace.addr_to_sgl = 1) =>
        /\ trace.ret = 0 =>
              ~result.ok /\ result.err = "Failed to populate sgl entries: no entries created"
        /\ trace.ret = -1 =>
              ~result.ok /\ result.err = "Failed to populate sgl entries: last os error"
        /\ trace.ret < -1 =>
              /\ ~result.ok
              /\ result.err = "Failed to populate sgl entries, not enough sg entries available"
              /\ result.required = -trace.ret - 1
              /\ result.available = trace.max_regions
        /\ trace.ret > 0 =>
              /\ result.ok
              /\ result.region_count = trace.ret
              /\ result.size = trace.len
              /\ range.state = "range" =>
                    range.region_count = trace.ret /\ range.size = trace.len
        /\ trace.ret <= 0 => range.state \notin {"range", "mapping"}

C3_Witness ==
    /\ result.op = "dma_range"
    /\ trace.max_regions = 1
    /\ trace.ret = -3
    /\ result.required = 2
    /\ result.available = 1

\* C4: dma_range fails when len = 0, or max_regions = 0, or the DMA table is
\* empty, and then without calling vfu_addr_to_sgl, without changing the DMA
\* table and without a DmaRange; when the three preconditions hold
\* vfu_addr_to_sgl is called exactly once.
C4_Preconditions ==
    result.op = "dma_range" =>
        LET pre == trace.len > 0 /\ trace.max_regions > 0 /\ ~trace.table_empty IN
        /\ ~pre => /\ ~result.ok
                   /\ trace.addr_to_sgl = 0
                   /\ trace.table_kept
                   /\ range.state \notin {"range", "mapping"}
        /\ pre => trace.addr_to_sgl = 1 /\ trace.table_kept

C4_Witness ==
    /\ result.op = "dma_range"
    /\ setup_dma
    /\ trace.len > 0
    /\ trace.max_regions > 0
    /\ trace.table_empty
    /\ result.err = "No mappable regions registered"
    /\ trace.addr_to_sgl = 0

\* C5: a DmaMapping is released exactly once: vfu_sgl_put is called at most
\* once, only after a vfu_sgl_get that succeeded, on the same buffer and with
\* the same entry count; a live mapping has been acquired and not released;
\* and once the mapping is gone, by whichever exit, it has been released.
C5_ReleasedExactlyOnce ==
    /\ trace.sgl_put <= 1
    /\ trace.sgl_put = 1 =>
          /\ trace.sgl_get = 1
          /\ trace.sgl_get_ret = 0
          /\ trace.sgl_put_buf = trace.sgl_get_buf
          /\ trace.sgl_put_cnt = trace.sgl_get_cnt
    /\ range.state = "mapping" =>
          trace.sgl_get = 1 /\ trace.sgl_get_ret = 0 /\ trace.sgl_put = 0
    /\ (trace.sgl_get = 1 /\ trace.sgl_get_ret = 0 /\ range.state # "mapping") =>
          trace.sgl_put = 1 /\ trace.exit # ""
    /\ (trace.sgl_get = 0 \/ trace.sgl_get_ret # 0) => trace.sgl_put = 0

C5_Witness ==
    /\ range.state = "dropped"
    /\ trace.exit = "error"
    /\ trace.sgl_get = 1
    /\ trace.sgl_put = 1
    /\ trace.sgl_put_cnt = 2

\* C6: no native DMA call (vfu_sg_is_mappable, vfu_sgl_get, vfu_sgl_put) is
\* made on a session after vfu_destroy_ctx was called on it.
C6_NoCallAfterDestroy == ~stale_use

\* The scatter-gather entries that translation produced are the first
\* trace.ret chunks of the buffer.
ProducedEntries == 1 .. trace.ret

\* C9: into_mapping on a range with a non-mappable entry fails without
\* partial spans: it returns an error, vfu_sgl_get is not called, there is no
\* DmaMapping and no vfu_sgl_put.
C9_NonMappableFails ==
    (result.op = "into_mapping" /\ \E i \in ProducedEntries : ~trace.verdicts[i]) =>
        /\ ~result.ok
        /\ result.err = "Dma range is not mappable."
        /\ trace.sgl_get = 0
        /\ trace.sgl_put = 0
        /\ range.state = "dropped"
        /\ range.mapped_regions = << >>

C9_Witness ==
    /\ result.op = "into_mapping"
    /\ trace.ret = 2
    /\ trace.verdicts = << TRUE, FALSE >>
    /\ ~result.ok

\* C10: into_mapping on a range whose every entry is mappable asks vfu_sgl_get
\* for region_count spans and, when that succeeds, yields a DmaMapping of
\* exactly region_count spans whose total_length is the len given to
\* dma_range; when vfu_sgl_get fails it returns an error and there is no
\* DmaMapping. (Stated for a session that was not destroyed under the range.)
C10_MappableYieldsMapping ==
    (result.op = "into_mapping" /\ ~stale_use) =>
        /\ (\A i \in ProducedEntries : trace.verdicts[i]) =>
              /\ trace.sgl_get = 1
              /\ trace.sgl_get_cnt = trace.ret
              /\ trace.sgl_get_ret = 0 => result.ok
        /\ range.state = "mapping" =>
              /\ Len(range.mapped_regions) = range.region_count
              /\ range.region_count = trace.ret
              /\ DmaMapping_total_length(range) = trace.len
        /\ (trace.sgl_get = 1 /\ trace.sgl_get_ret # 0) =>
              ~result.ok /\ range.state = "dropped"

\* C11: is_mappable is true if and only if every one of the region_count
\* entries that translation produced is host-mappable; the buffer slots after
\* region_count, unused when translation produced fewer than max_regions
\* entries, play no part. (Stated for a session that was not destroyed under
\* the range.)
C11_IsMappableIffProducedMappable ==
    (result.op = "is_mappable" /\ ~stale_use) =>
        (result.ok <=> \A i \in ProducedEntries : trace.verdicts[i])

-----------------------------------------------------------------------------
(* Claims about read and write *)

\* C12 as stated: write fails if and only if the length of the data differs
\* from the size of the range; when they differ it returns an error without
\* calling vfu_sgl_write and without changing guest memory, and when they are
\* equal vfu_sgl_write is called.
C12_WriteFailsIffSizeDiffers ==
    io.op = "write" =>
        /\ ~io.ok <=> io.len # io.size
        /\ io.len # io.size => io.native = 0 /\ guest_mem = io.mem_before
        /\ io.len = io.size => io.native = 1

\* C12 as amended: write fails with the size error, before vfu_sgl_write and
\* with guest memory unchanged, if and only if the length of the data differs
\* from the size of the range; when they are equal vfu_sgl_write is called
\* exactly once, and write then fails if and only if vfu_sgl_write failed.
C12_WriteSizeCheck ==
    io.op = "write" =>
        /\ (io.err = "Must write exact size of dma range") <=> io.len # io.size
        /\ io.len # io.size => ~io.ok /\ io.native = 0 /\ guest_mem = io.mem_before
        /\ io.len = io.size =>
              /\ io.native = 1
              /\ io.ok <=> io.native_ret = 0
              /\ ~io.ok => io.err = "Failed to write to dma range"

C12_Witness ==
    /\ io.op = "write"
    /\ io.size = 2
    /\ io.len = 1
    /\ ~io.ok
    /\ io.native = 0
    /\ guest_mem = io.mem_before

\* C13: a write that succeeded on a range followed by a read of that range
\* returns exactly the data written, all size bytes of it, for ranges of one
\* entry and of several.
C13_RoundTrip ==
    (io.op = "read" /\ io.ok /\ written.some) => io.data = written.data

-----------------------------------------------------------------------------
(* Claims about attach and run *)

\* C14: attach calls vfu_attach_ctx exactly once and does not retry; it
\* yields Attached when the call returns 0, WouldBlock (not an error) when it
\* fails with the would-block platform error, and a fatal error on any other
\* failure; on a blocking context it never yields WouldBlock.
C14_AttachOnce ==
    session_out.op = "attach" =>
        /\ session_out.native = 1
        /\ session_out.ret = 0 => session_out.value = "Attached"
        /\ (session_out.ret # 0 /\ session_out.errno = EAGAIN) =>
              session_out.value = "WouldBlock"
        /\ (session_out.ret # 0 /\ session_out.errno # EAGAIN) =>
              session_out.value = "Err"
        /\ ~non_blocking => session_out.value \in {"Attached", "Err"}

C14_Witness ==
    /\ session_out.op = "attach"
    /\ non_blocking
    /\ session_out.value = "WouldBlock"
    /\ session_out.native = 1
    /\ errno = EAGAIN

\* C15: run calls vfu_run_ctx exactly once and does not loop; it returns the
\* non-negative native value as the count of requests processed, an error if
\* and only if the native value is negative, and on a non-blocking context
\* with no request pending it returns 0 unless the native call failed.
C15_RunOnce ==
    session_out.op = "run" =>
        /\ session_out.native = 1
        /\ session_out.ret >= 0 =>
              session_out.value = "Ok" /\ session_out.count = session_out.ret
        /\ session_out.value = "Err" <=> session_out.ret < 0
        /\ (non_blocking /\ session_out.pending_before = 0 /\ session_out.value = "Ok") =>
              session_out.count = 0
        /\ non_blocking => session_out.count <= 1

C15_Witness ==
    /\ session_out.op = "run"
    /\ non_blocking
    /\ session_out.pending_before = 2
    /\ session_out.value = "Ok"
    /\ session_out.count = 1
    /\ pending = 1

-----------------------------------------------------------------------------
(* Claims about the dispatch callbacks *)

\* C16: for every region access callback, a device result Ok(n) is returned
\* to the native session as the byte count n with the platform's last error
\* as it was, and a device result Err(code) is returned as -1 with the
\* platform's last error set to exactly code.
C16_AccessResult ==
    (dispatch.cb = "region_access_callback" /\ ~dispatch.panicked) =>
        /\ dispatch.device_result.kind = "Ok" =>
              dispatch.ret = dispatch.device_result.val /\ errno = dispatch.errno_before
        /\ dispatch.device_result.kind = "Err" =>
              dispatch.ret = -1 /\ errno = dispatch.device_result.val

C16_Witness ==
    /\ dispatch.cb = "region_access_callback"
    /\ dispatch.device_result = [kind |-> "Err", val |-> 22]
    /\ dispatch.errno_before = 5
    /\ dispatch.ret = -1
    /\ errno = 22

ReasonOf(reset_type) ==
    CASE reset_type = "VFU_RESET_DEVICE"    -> "ClientRequest"
      [] reset_type = "VFU_RESET_LOST_CONN" -> "LostConnection"
      [] reset_type = "VFU_RESET_PCI_FLR"   -> "PciReset"

\* C17: the reset callback maps device reset to ClientRequest, lost
\* connection to LostConnection and PCI function-level reset to PciReset,
\* calls the device's reset exactly once with that reason, and returns 0 when
\* the device returns Ok(()) and the device's code when it returns Err(code).
C17_ResetMapping ==
    dispatch.cb = "reset_callback" =>
        /\ dispatch.reason = ReasonOf(dispatch.reset_type)
        /\ dispatch.method = "reset"
        /\ dispatch.device_calls = 1
        /\ dispatch.device_result.kind = "Ok" => dispatch.ret = 0
        /\ dispatch.device_result.kind = "Err" => dispatch.ret = dispatch.device_result.val

C17_Witness ==
    /\ dispatch.cb = "reset_callback"
    /\ dispatch.reset_type = "VFU_RESET_PCI_FLR"
    /\ dispatch.reason = "PciReset"
    /\ dispatch.device_result = [kind |-> "Err", val |-> -1]
    /\ dispatch.ret = -1

\* C18: every run of a dispatch callback returns its completion signal to the
\* native session: none panics, whatever the device does and whatever the
\* message logged.
C18_NoPanic == ~dispatch.panicked

\* C19: on every dma_register event the device's on_dma_range_added hook is
\* invoked, after the table was updated, and on every dma_unregister event
\* the on_dma_range_removed hook.
C19_HookAfterTableUpdate ==
    /\ dispatch.cb = "dma_register_callback" =>
          dispatch.method = "on_dma_range_added" /\ dispatch.device_calls = 1
    /\ dispatch.cb = "dma_unregister_callback" =>
          dispatch.method = "on_dma_range_removed" /\ dispatch.device_calls = 1

MethodOf(k) ==
    CASE k.kind = "Bar0"      -> "region_access_bar0"
      [] k.kind = "Bar1"      -> "region_access_bar1"
      [] k.kind = "Bar2"      -> "region_access_bar2"
      [] k.kind = "Bar3"      -> "region_access_bar3"
      [] k.kind = "Bar4"      -> "region_access_bar4"
      [] k.kind = "Bar5"      -> "region_access_bar5"
      [] k.kind = "Rom"       -> "region_access_rom"
      [] k.kind = "Config"    -> "region_access_config"
      [] k.kind = "Vga"       -> "region_access_vga"
      [] k.kind = "Migration" -> "region_access_migration"

\* C20: the access callback installed for the protocol index of a configured
\* region of kind K calls the device's region_access_<K> and no other
\* method, once, with the offset, a buffer of exactly count bytes and the
\* is_write flag of the request.
C20_Routing ==
    dispatch.cb = "region_access_callback" =>
        \E i \in 1 .. Len(device_regions) :
            /\ to_vfu_region_type(device_regions[i]) = dispatch.idx
            /\ dispatch.method = MethodOf(device_regions[i])
            /\ dispatch.device_calls = 1
            /\ dispatch.offset = dispatch.req_offset
            /\ dispatch.buf_len = dispatch.req_count
            /\ dispatch.is_write = dispatch.req_write

C20_Witness ==
    /\ dispatch.cb = "region_access_callback"
    /\ Len(device_regions) = 2
    /\ device_regions[1] = [kind |-> "Rom"]
    /\ device_regions[2] = [kind |-> "Config", always_callback |-> TRUE]
    /\ dispatch.idx = 7
    /\ dispatch.method = "region_access_config"
    /\ dispatch.req_count = 2
    /\ dispatch.is_write

-----------------------------------------------------------------------------
(* Further claims about configuration and setup *)

\* C21: a configuration with two regions of the same kind is rejected by
\* build as a configuration error before any native resource is touched: no
\* DeviceConfiguration comes out of it, so setup never starts, no socket file
\* is removed and no native call is made.
C21_DuplicateRejectedBeforeNative ==
    (pc # "configure" /\ HasDuplicateRegion(device_regions)) =>
        /\ pc = "rejected"
        /\ ~build_result.ok
        /\ build_result.err = "Duplicate device region"
        /\ calls = << >>
        /\ session = "none"
        /\ vfu_ctx = "None"
        /\ setup_result = NoResult

C21_Witness ==
    /\ pc = "rejected"
    /\ device_regions = << [kind |-> "Bar0"], [kind |-> "Bar0"] >>
    /\ overwrite_socket
    /\ calls = << >>

HasCall(cs, fn) == \E i \in DOMAIN cs : cs[i].fn = fn

CallBefore(cs, fn1, fn2) ==
    \A i, j \in DOMAIN cs : (cs[i].fn = fn1 /\ cs[j].fn = fn2) => i < j

\* C22: in the step that creates the device, a socket file at the path is
\* removed, before vfu_create_ctx, exactly when overwrite_socket is set and the
\* path holds a socket; when that removal fails, setup fails with the file
\* still there and without a vfu_create_ctx call. In every other case nothing
\* is removed, the removal is not what fails setup, and vfu_create_ctx is
\* called unless the path cannot be converted to a C string.
C22_SocketOverwrite ==
    [][ (pc = "setup_create_device" /\ pc' # pc) =>
          IF overwrite_socket /\ socket_file = "socket"
          THEN /\ HasCall(calls', "remove_file")
               /\ CallBefore(calls', "remove_file", "vfu_create_ctx")
               /\ IF failed_call' = "remove_file"
                  THEN /\ pc' = "failed"
                       /\ ~setup_result'.ok
                       /\ ~HasCall(calls', "vfu_create_ctx")
                       /\ session' = "none"
                       /\ socket_file' = "socket"
                  ELSE socket_file' = "absent"
          ELSE /\ ~HasCall(calls', "remove_file")
               /\ socket_file' = socket_file
               /\ failed_call' # "remove_file"
               /\ failed_call' \notin {"to_str", "CString::new"}
                     => HasCall(calls', "vfu_create_ctx")
      ]_vars

C22_Witness ==
    /\ overwrite_socket
    /\ HasCall(calls, "remove_file")
    /\ HasCall(calls, "vfu_create_ctx")
    /\ socket_file = "absent"
    /\ session = "live"

C22_WitnessFailedRemoval ==
    /\ failed_call = "remove_file"
    /\ socket_file = "socket"
    /\ session = "none"
    /\ pc = "failed"
CountCalls(cs, fn) == Cardinality({i \in DOMAIN cs : cs[i].fn = fn})

\* C23: once setup is past its callbacks step the reset callback was installed
\* exactly once and the DMA callbacks were installed exactly when setup_dma is
\* set; both installations come after the vfu_setup_region call of every
\* configured region and before vfu_realize_ctx, the reset one first; and
\* when installing the reset callback failed the DMA callbacks were not
\* installed.
C23_OtherCallbacks ==
    /\ pc \in {"setup_realize", "realized", "dropped"} =>
          /\ CountCalls(calls, "vfu_setup_device_reset_cb") = 1
          /\ CountCalls(calls, "vfu_setup_device_dma") = (IF setup_dma THEN 1 ELSE 0)
    /\ HasCall(calls, "vfu_setup_device_dma") =>
          /\ setup_dma
          /\ HasCall(calls, "vfu_setup_device_reset_cb")
          /\ failed_call # "vfu_setup_device_reset_cb"
    /\ (HasCall(calls, "vfu_setup_device_reset_cb") /\ setup_dma
           /\ failed_call # "vfu_setup_device_reset_cb")
          => HasCall(calls, "vfu_setup_device_dma")
    /\ HasCall(calls, "vfu_setup_device_reset_cb") =>
          CountCalls(calls, "vfu_setup_region") = Len(device_regions)
    /\ HasCall(calls, "vfu_realize_ctx") => HasCall(calls, "vfu_setup_device_reset_cb")
    /\ CallBefore(calls, "vfu_setup_region", "vfu_setup_device_reset_cb")
    /\ CallBefore(calls, "vfu_setup_region", "vfu_setup_device_dma")
    /\ CallBefore(calls, "vfu_setup_device_reset_cb", "vfu_setup_device_dma")
    /\ CallBefore(calls, "vfu_setup_device_reset_cb", "vfu_realize_ctx")
    /\ CallBefore(calls, "vfu_setup_device_dma", "vfu_realize_ctx")

C23_Witness ==
    /\ setup_dma
    /\ Len(device_regions) = MaxRegions
    /\ HasCall(calls, "vfu_setup_device_dma")
    /\ HasCall(calls, "vfu_realize_ctx")
    /\ pc = "realized"

C23_WitnessResetFailed ==
    /\ setup_dma
    /\ failed_call = "vfu_setup_device_reset_cb"
    /\ pc = "failed"
\* The vfu_setup_region calls among cs, in order.
RegionCallsOf(cs) == SelectSeq(cs, LAMBDA c : c.fn = "vfu_setup_region")

\* C24: the i-th vfu_setup_region call is for the i-th configured region and
\* carries READ iff read, WRITE iff write, MEM iff memory, ALWAYS_CB iff the
\* kind is Config with always_callback, and no other flag, with that region's
\* index, size, descriptor and offset; a setup that got past its regions step
\* made one such call per region.
C24_RegionSetupArgs ==
    /\ Len(region_setups) <= Len(device_regions)
    /\ Len(RegionCallsOf(calls)) = Len(region_setups)
    /\ pc \in {"setup_other_callbacks", "setup_realize", "realized", "dropped"}
          => Len(region_setups) = Len(device_regions)
    /\ \A i \in 1 .. Len(region_setups) :
          LET s == region_setups[i]
              k == device_regions[i]
              a == region_attrs[i]
          IN  /\ ("VFU_REGION_FLAG_READ" \in s.flags) = a.read
              /\ ("VFU_REGION_FLAG_WRITE" \in s.flags) = a.write
              /\ ("VFU_REGION_FLAG_MEM" \in s.flags) = a.memory
              /\ ("VFU_REGION_FLAG_ALWAYS_CB" \in s.flags)
                    = (k \in { [kind |-> "Config", always_callback |-> TRUE] })
              /\ s.flags \subseteq {"VFU_REGION_FLAG_READ", "VFU_REGION_FLAG_WRITE",
                                     "VFU_REGION_FLAG_MEM", "VFU_REGION_FLAG_ALWAYS_CB"}
              /\ s.region_idx = to_vfu_region_type(k)
              /\ RegionCallsOf(calls)[i].idx = s.region_idx
              /\ s.size = a.size
              /\ s.fd = a.file_descriptor
              /\ s.offset = a.offset

C24_Witness ==
    /\ pc = "realized"
    /\ Len(region_setups) = 2
    /\ device_regions[1] = [kind |-> "Config", always_callback |-> FALSE]
    /\ device_regions[2] = [kind |-> "Bar0"]
    /\ region_setups[1].flags = {"VFU_REGION_FLAG_WRITE"}
    /\ region_setups[1].size = 2
    /\ region_setups[2].flags = {"VFU_REGION_FLAG_READ", "VFU_REGION_FLAG_MEM"}
    /\ region_setups[2].size = 1
\* C26: to_vfu_region_type gives every kind an index of the protocol, two
\* kinds get the same index exactly when they are the same variant (the two
\* Config variants share one), and the index a region is validated with is
\* the one its vfu_setup_region call carries. No kind is without an index.
C26_RegionIndex ==
    /\ \A k1, k2 \in DeviceRegionKind :
          (to_vfu_region_type(k1) = to_vfu_region_type(k2)) <=> (k1.kind = k2.kind)
    /\ \A k \in DeviceRegionKind : to_vfu_region_type(k) \in 0 .. 9
    /\ \A i \in DOMAIN device_regions :
          /\ to_vfu_region_type(device_regions[i]) \in 0 .. 9
          /\ i <= Len(region_setups) =>
                /\ region_setups[i].region_idx = to_vfu_region_type(device_regions[i])
                /\ RegionCallsOf(calls)[i].idx = to_vfu_region_type(device_regions[i])
    /\ (~build_result.ok /\ build_result.err = "Duplicate device region") =>
          \E i, j \in DOMAIN device_regions :
             /\ i < j
             /\ device_regions[i].kind = device_regions[j].kind
             /\ build_result.idx = to_vfu_region_type(device_regions[j])

C26_Witness ==
    /\ pc = "realized"
    /\ device_regions = << [kind |-> "Config", always_callback |-> FALSE],
                           [kind |-> "Migration"] >>
    /\ region_setups[1].region_idx = 7
    /\ region_setups[2].region_idx = 9
\* C25: a step that creates a DmaRange, asks one whether it is mappable, or
\* lets one go unconverted, leaves the DMA table as it is and makes no
\* vfu_sgl_get and no vfu_sgl_put call; while a range is unconverted no such
\* call has been made for it.
C25_RangeAbandoned ==
    [][ /\ (range.state # "range" /\ range'.state = "range") =>
              /\ trace'.sgl_get = 0 /\ trace'.sgl_put = 0
              /\ dma_regions' = dma_regions /\ host_vaddr' = host_vaddr
        /\ (range.state = "range" /\ range' = range
               /\ (result' # result \/ trace' # trace)) =>
              /\ result'.op = "is_mappable"
              /\ trace'.sgl_get = 0 /\ trace'.sgl_put = 0
              /\ dma_regions' = dma_regions /\ host_vaddr' = host_vaddr
        /\ (range.state = "range" /\ range'.state = "dropped"
               /\ result'.op # "into_mapping") =>
              /\ trace'.sgl_get = 0 /\ trace'.sgl_put = 0
              /\ dma_regions' = dma_regions /\ host_vaddr' = host_vaddr
      ]_vars

C25_Witness ==
    /\ range.state = "dropped"
    /\ result.op = "is_mappable"
    /\ trace.sgl_get = 0
    /\ trace.sgl_put = 0
    /\ DOMAIN dma_regions # {}
C29_NoneLiveAfterUnregister ==
    range.state \in {"range", "mapping"} =>
        \A i \in 1 .. range.region_count :
            range.sgl_buffer[i].region \in DOMAIN dma_regions
DmaCallbacks == {"dma_register_callback", "dma_unregister_callback"}

\* C28: the DMA table changes only in a step that is a DMA event. After a
\* register event the table is the one before with the event's base mapped to
\* the event's length, one entry for that base whether or not it was there;
\* after an unregister event it is the one before without that base, and the
\* same table when the base was absent. attach, run, the region access and
\* reset callbacks, dma_range, into_mapping, read and write leave it as it is.
C28_TableChangesOnlyByEvents ==
    [][ LET ev == dispatch.cb = "none" /\ dispatch'.cb \in DmaCallbacks
            b  == dispatch'.dma_base
        IN
        /\ dma_regions' # dma_regions => ev
        /\ (ev /\ dispatch'.cb = "dma_register_callback") =>
              /\ DOMAIN dma_regions' = DOMAIN dma_regions \cup {b}
              /\ dma_regions'[b] = dispatch'.dma_len
              /\ \A x \in DOMAIN dma_regions \ {b} : dma_regions'[x] = dma_regions[x]
        /\ (ev /\ dispatch'.cb = "dma_unregister_callback") =>
              /\ DOMAIN dma_regions' = DOMAIN dma_regions \ {b}
              /\ \A x \in DOMAIN dma_regions' : dma_regions'[x] = dma_regions[x]
              /\ b \notin DOMAIN dma_regions => dma_regions' = dma_regions
        /\ (session_out' # session_out \/ result' # result \/ io' # io \/ trace' # trace
              \/ range' # range
              \/ dispatch'.cb \in {"region_access_callback", "reset_callback"})
              => dma_regions' = dma_regions
      ]_vars

C28_Witness ==
    /\ dispatch.cb = "dma_register_callback"
    /\ dispatch.dma_base \in DOMAIN dispatch.dma_before
    /\ dispatch.dma_before[dispatch.dma_base] # dispatch.dma_len
    /\ dma_regions[dispatch.dma_base] = dispatch.dma_len
    /\ Cardinality(DOMAIN dma_regions) = MaxBase
    /\ io.op = "write"
    /\ range.state = "range"

C28_WitnessAbsentUnregister ==
    /\ dispatch.cb = "dma_unregister_callback"
    /\ dispatch.dma_base \notin DOMAIN dispatch.dma_before
    /\ dma_regions = dispatch.dma_before
    /\ dma_regions # EmptyTable
    /\ session_out.op = "run"
====
